---- MODULE Spec2Model ----
(***************************************************************************)
(* CineGuard AI (src/app.py): the feature extractor, the score             *)
(* normalisation, the risk classifier and the "Analyze Movie" handler.     *)
(*                                                                         *)
(* Representation.                                                         *)
(*   - A Python str is a sequence of one-character strings; the en dash    *)
(*     U+2013 is the token EnDash.  A plot text is a sequence of words.    *)
(*   - A dict is [keys |-> set of keys present, val |-> key -> value].     *)
(*   - A parsed number is [t, m, scale]: m / 10^scale when t = "num";      *)
(*     t = "nan" is the float nan, "none" is None, "raise" an exception.   *)
(*   - A score on the 0..100 scale is [fin, v]: v hundredths when fin,     *)
(*     else v = 1 (+inf), -1 (-inf) or 0 (nan).                            *)
(***************************************************************************)
EXTENDS Integers, Sequences, FiniteSets, TLC

VARIABLES pc, movie, features, min_score, max_score, score, fraud_score,
          gauge, level, shown, message, log

vars == <<pc, movie, features, min_score, max_score, score, fraud_score,
          gauge, level, shown, message, log>>

\* ------------------------------------------------------------------ bounds
\* The calendar year datetime.now() reports.
ThisYear == 2026
\* Raw decision values range over -MaxRaw..MaxRaw.
MaxRaw == 4
\* Calibration bounds range over -MaxCal..MaxCal.
MaxCal == 3
\* explain_risk is called on -ScoreOver..(10000 + ScoreOver) hundredths.
ScoreOver == 150

\* ------------------------------------------------------- Python strings
EnDash == "U+2013"
Digits == <<"0", "1", "2", "3", "4", "5", "6", "7", "8", "9">>
IsDigit(c) == \E i \in 1..10 : Digits[i] = c
DigitVal(c) == (CHOOSE i \in 1..10 : Digits[i] = c) - 1

\* The "N/A" sentinel of the metadata service.
NA == <<"N", "/", "A">>

\* A replace that removes nothing.
ReplaceNothing(s, c) == s

\* str.replace(c, "")
Replace(s, c) == SelectSeq(s, LAMBDA x : x # c)

\* str.split(sep)[0]: the text before the first sep, the whole text if none.
SplitFirst(s, sep) ==
    LET hits == {i \in 1..Len(s) : s[i] = sep}
    IN  IF hits = {} THEN s
        ELSE SubSeq(s, 1, (CHOOSE i \in hits : \A j \in hits : i <= j) - 1)

\* str.strip() of blanks, as int() and float() do before parsing.
Strip(s) ==
    LET keep == {i \in 1..Len(s) : s[i] # " "}
    IN  IF keep = {} THEN <<>>
        ELSE SubSeq(s, CHOOSE i \in keep : \A j \in keep : i <= j,
                       CHOOSE i \in keep : \A j \in keep : i >= j)

RECURSIVE DigitsValue(_)
DigitsValue(s) ==
    IF s = <<>> THEN 0
    ELSE 10 * DigitsValue(SubSeq(s, 1, Len(s) - 1)) + DigitVal(s[Len(s)])

AllDigits(s) == \A i \in 1..Len(s) : IsDigit(s[i])

IsSign(c) == c = "-" \/ c = "+"

\* A parse result or a raised exception.
Raised == [t |-> "raise", m |-> 0, scale |-> 0]
Value(m, scale) == [t |-> "num", m |-> m, scale |-> scale]
NaNValue == [t |-> "nan", m |-> 0, scale |-> 0]
\* Python's None where a number is expected.
PyNone == [t |-> "none", m |-> 0, scale |-> 0]

\* int(s): blanks stripped, an optional sign, then one or more digits;
\* anything else raises ValueError.
PyInt(s) ==
    LET t == Strip(s)
        signed == t # <<>> /\ IsSign(t[1])
        body == IF signed THEN Tail(t) ELSE t
    IN  IF body = <<>> \/ ~AllDigits(body) THEN Raised
        ELSE Value((IF signed /\ t[1] = "-" THEN -1 ELSE 1) * DigitsValue(body), 0)

RECURSIVE Normal(_, _)
\* m / 10^scale with trailing zeros of the fraction removed.
Normal(m, scale) ==
    IF scale > 0 /\ m % 10 = 0 THEN Normal(m \div 10, scale - 1)
    ELSE Value(m, scale)

Lower(c) == IF c = "N" THEN "n" ELSE IF c = "A" THEN "a" ELSE c

\* float(s): blanks stripped, an optional sign, then "nan" in any case or a
\* decimal literal (digits, optionally a point and digits, at least one
\* digit in all); anything else raises ValueError.
PyFloat(s) ==
    LET t == Strip(s)
        signed == t # <<>> /\ IsSign(t[1])
        body == IF signed THEN Tail(t) ELSE t
        int_part == SplitFirst(body, ".")
        has_point == Len(int_part) < Len(body)
        frac_part == IF has_point THEN SubSeq(body, Len(int_part) + 2, Len(body))
                     ELSE <<>>
        sgn == IF signed /\ t[1] = "-" THEN -1 ELSE 1
    IN  IF [i \in 1..Len(body) |-> Lower(body[i])] = <<"n", "a", "n">> THEN NaNValue
        ELSE IF ~AllDigits(int_part) \/ ~AllDigits(frac_part)
                \/ Len(int_part) + Len(frac_part) = 0 THEN Raised
        ELSE Normal(sgn * DigitsValue(int_part \o frac_part), Len(frac_part))

\* ------------------------------------------------------------- the dict
Has(d, k) == k \in d.keys
\* d.get(k, default)
Get(d, k, default) == IF Has(d, k) THEN d.val[k] ELSE default

\* --------------------------------------------------- extract_features
MOVIE == <<"m", "o", "v", "i", "e">>

\* The word polarities of the sentiment analyzer's lexicon, in hundredths.
Lexicon == [w \in {"happy", "sad"} |-> IF w = "happy" THEN 80 ELSE -50]

RECURSIVE SumSeq(_)
SumSeq(s) == IF s = <<>> THEN 0 ELSE Head(s) + SumSeq(Tail(s))

\* TextBlob(text).sentiment.polarity, in hundredths: the mean polarity of
\* the words the lexicon assesses, 0.0 when it assesses none.
Polarity(text) ==
    LET assessed == SelectSeq(text, LAMBDA w : w \in DOMAIN Lexicon)
    IN  IF assessed = <<>> THEN 0
        ELSE SumSeq([i \in 1..Len(assessed) |-> Lexicon[assessed[i]]])
                 \div Len(assessed)

\* A ratio whose divisor is floored at an epsilon: always finite.
RatioFloored(rating, votes) ==
    [kind |-> IF rating.t = "nan" \/ votes < -1 THEN "nan" ELSE "fin",
     num |-> rating, logarg |-> votes]

\* rating / np.log1p(votes) in numpy float64 arithmetic: log1p is nan below
\* -1, -inf at -1, 0.0 at 0 and positive above; a division by 0.0 gives
\* +-inf or nan with a warning, never an exception.  A finite quotient is
\* kept symbolically as num / log1p(logarg).
Ratio(rating, votes) ==
    [kind |-> IF rating.t = "nan" \/ votes < -1 THEN "nan"
              ELSE IF votes # 0 THEN "fin"
              ELSE IF rating.m > 0 THEN "pinf"
              ELSE IF rating.m < 0 THEN "ninf"
              ELSE "nan",
     num |-> rating, logarg |-> votes]

\* None in [rating, votes, year, runtime], with the runtime left out.
AnyNoneSkipsRuntime(rating, votes, year, runtime) ==
    PyNone \in {rating, votes, year}

\* None in [rating, votes, year, runtime]
AnyNone(rating, votes, year, runtime) ==
    PyNone \in {rating, votes, year, runtime}

\* extract_features' None result.
None == <<>>

extract_features(d) ==
    IF Get(d, "Type", <<>>) # MOVIE THEN None
    ELSE IF ~Has(d, "imdbRating") THEN None                      \* KeyError
    ELSE LET rating == IF d.val["imdbRating"] # NA
                       THEN PyFloat(d.val["imdbRating"]) ELSE PyNone
    IN  IF rating.t = "raise" THEN None                          \* ValueError
    ELSE IF ~Has(d, "imdbVotes") THEN None                       \* KeyError
    ELSE LET votes == IF d.val["imdbVotes"] # NA
                      THEN PyInt(Replace(d.val["imdbVotes"], ","))
                      ELSE PyNone
    IN  IF votes.t = "raise" THEN None
    ELSE IF ~Has(d, "Year") THEN None                            \* KeyError
    ELSE LET year == IF d.val["Year"] # NA
                     THEN PyInt(SplitFirst(d.val["Year"], EnDash))
                     ELSE PyNone
    IN  IF year.t = "raise" THEN None
    ELSE LET runtime_str == Get(d, "Runtime", NA)
             runtime == IF runtime_str # NA
                        THEN PyInt(SplitFirst(runtime_str, " "))
                        ELSE PyNone
    IN  IF runtime.t = "raise" THEN None
    ELSE IF AnyNone(rating, votes, year, runtime) THEN None
    ELSE IF ~Has(d, "Plot") THEN None                            \* KeyError
    ELSE LET sentiment == Polarity(d.val["Plot"])
             movie_age == ThisYear - year.m
             ratio == Ratio(rating, votes.m)
    IN  <<rating, votes.m, runtime.m, sentiment, movie_age, ratio>>

\* ------------------------------------------------- the metadata records
FieldKeys == {"Type", "imdbRating", "imdbVotes", "Year", "Runtime", "Plot"}
\* The keys the handler shows without parsing them.
DisplayKeys == {"Response", "Poster", "Title", "Genre"}

Absent == [has |-> FALSE, v |-> <<>>]
Present(s) == [has |-> TRUE, v |-> s]

SERIES == <<"s", "e", "r", "i", "e", "s">>
\* The plot text "N/A" as one word.
PlotNA == <<"N/A">>

TypeOpts == {Present(MOVIE), Present(SERIES), Absent}
RatingOpts == {Present(<<"7", ".", "5">>), Present(<<"0">>), Present(NA),
               Present(<<"7", ",", "5">>), Present(<<"n", "a", "n">>), Absent}
VotesOpts == {Present(<<"1", "2", ",", "3", "4", "5">>), Present(<<"0">>),
              Present(NA), Present(<<"1", "2", "a">>), Absent}
YearOpts == {Present(<<"2", "0", "0", "1">>),
             Present(<<"2", "0", "0", "1", EnDash, "2", "0", "0", "5">>),
             Present(NA), Present(<<"2", "0", "0", "1", "-", "0", "5">>),
             Present(<<EnDash, "2", "0", "0", "5">>), Absent}
RuntimeOpts == {Present(<<"1", "2", "0", " ", "m", "i", "n">>),
                Present(<<"9", "0">>), Present(NA),
                Present(<<"1", "h", " ", "3", "0">>), Absent}
PlotOpts == {Present(<<"A", "happy", "story">>), Present(<<"A", "sad", "end">>),
             Present(PlotNA), Absent}

MkMovie(type, rating, votes, year, runtime, plot, display) ==
    LET opt == [k \in FieldKeys |->
                  CASE k = "Type" -> type [] k = "imdbRating" -> rating
                    [] k = "imdbVotes" -> votes [] k = "Year" -> year
                    [] k = "Runtime" -> runtime [] k = "Plot" -> plot]
    IN  [keys |-> {k \in FieldKeys : opt[k].has} \cup display,
         val |-> [k \in FieldKeys |-> opt[k].v],
         Response |-> "True"]

\* The records fetch_movie can return with Response "True".
Records ==
    {MkMovie(t, r, v, y, rt, p, DisplayKeys) :
        t \in TypeOpts, r \in RatingOpts, v \in VotesOpts, y \in YearOpts,
        rt \in RuntimeOpts, p \in PlotOpts}

\* The answer of the metadata service for a title it does not know.
NotFound == [keys |-> {"Response", "Error"}, val |-> [k \in FieldKeys |-> <<>>],
             Response |-> "False"]
\* A found record without its Genre.
NoGenre ==
    MkMovie(Present(MOVIE), Present(<<"7", ".", "5">>),
            Present(<<"1", "2", ",", "3", "4", "5">>),
            Present(<<"2", "0", "0", "1">>), Present(<<"9", "0">>),
            Present(<<"A", "happy", "story">>), DisplayKeys \ {"Genre"})

NoMovie == [keys |-> {}, val |-> [k \in FieldKeys |-> <<>>], Response |-> ""]
\* A name not bound yet.
NoScore == [fin |-> FALSE, v |-> 2]
NoGauge == [value |-> NoScore, axis |-> <<0, 0>>]
NoLevel == [level |-> "", icon |-> ""]

\* ------------------------------------------------------- the risk score
\* The thresholds 60 and 30 and the axis end 100 of the score, in hundredths.
HighThreshold == 6000
ModerateThreshold == 3000
AxisMax == 10000
\* The factor of (1 - normalized) * 100.
Percent == 100
\* round(x, 2) keeps hundredths.
Cent == 100

Finite(v) == [fin |-> TRUE, v |-> v]
PlusInf == [fin |-> FALSE, v |-> 1]
MinusInf == [fin |-> FALSE, v |-> -1]
NaN == [fin |-> FALSE, v |-> 0]

\* score > t for a float score: nan and -inf exceed nothing, +inf everything.
Gt(s, t) == IF s.fin THEN s.v > t ELSE s = PlusInf

\* explain_risk with both comparisons non-strict.
explain_risk_ge(s) ==
    IF Gt(s, HighThreshold - 1) THEN [level |-> "High Risk", icon |-> "red"]
    ELSE IF Gt(s, ModerateThreshold - 1)
         THEN [level |-> "Moderate Risk", icon |-> "yellow"]
    ELSE [level |-> "Low Risk", icon |-> "green"]

explain_risk(s) ==
    IF Gt(s, HighThreshold) THEN [level |-> "High Risk", icon |-> "red"]
    ELSE IF Gt(s, ModerateThreshold)
         THEN [level |-> "Moderate Risk", icon |-> "yellow"]
    ELSE [level |-> "Low Risk", icon |-> "green"]

fraud_gauge(s) == [value |-> s, axis |-> <<0, AxisMax>>]

\* num / den (den > 0) rounded to the nearest integer, ties to even.
RoundHalfEven(num, den) ==
    LET q == num \div den
        r == num - q * den
    IN  IF 2 * r < den THEN q
        ELSE IF 2 * r > den THEN q + 1
        ELSE IF q % 2 = 0 THEN q ELSE q + 1

\* The normalisation without the inversion: round(normalized * 100, 2).
FraudScoreNotInverted(raw, lo, hi) ==
    IF hi = lo THEN NaN
    ELSE Finite(RoundHalfEven((raw - lo) * Percent * Cent, hi - lo))

\* normalized = (score - min_score) / (max_score - min_score)
\* fraud_score = round((1 - normalized) * 100, 2), in hundredths.  With a
\* zero range numpy's division gives +-inf or nan, and so does the rest.
FraudScore(raw, lo, hi) ==
    IF hi = lo
    THEN IF raw > lo THEN MinusInf ELSE IF raw < lo THEN PlusInf ELSE NaN
    ELSE LET num == raw - lo
             den == hi - lo
         IN  Finite(RoundHalfEven((den - num) * Percent * Cent, den))

\* ------------------------------------- extract_features called directly
InitExtract ==
    /\ pc = "call"
    /\ movie \in Records
    /\ features = None
    /\ min_score = 0 /\ max_score = 0 /\ score = 0
    /\ fraud_score = NoScore /\ gauge = NoGauge
    /\ level = NoLevel /\ shown = NoLevel
    /\ message = "" /\ log = <<>>

ExtractCall ==
    /\ pc = "call"
    /\ features' = extract_features(movie)
    /\ pc' = "return"
    /\ UNCHANGED <<movie, min_score, max_score, score, fraud_score, gauge,
                   level, shown, message, log>>

NextExtract == ExtractCall

SpecExtract == InitExtract /\ [][NextExtract]_vars

\* ------------------------------------------ claims about extract_features
\* What each well-formed field text of the records denotes, written out.
RatingTable == {<<Present(<<"7", ".", "5">>).v, Value(75, 1)>>,
                <<Present(<<"0">>).v, Value(0, 0)>>}
VotesTable == {<<(<<"1", "2", ",", "3", "4", "5">>), 12345>>, <<(<<"0">>), 0>>}
YearTable == {<<(<<"2", "0", "0", "1">>), 2001>>,
              <<(<<"2", "0", "0", "1", EnDash, "2", "0", "0", "5">>), 2001>>}
RuntimeTable == {<<(<<"1", "2", "0", " ", "m", "i", "n">>), 120>>,
                 <<(<<"9", "0">>), 90>>}
\* Field texts no number can be read from.
Malformed == [imdbRating |-> {<<"7", ",", "5">>},
              imdbVotes |-> {<<"1", "2", "a">>},
              Year |-> {<<"2", "0", "0", "1", "-", "0", "5">>,
                        <<EnDash, "2", "0", "0", "5">>},
              Runtime |-> {<<"1", "h", " ", "3", "0">>}]
NumericKeys == {"imdbRating", "imdbVotes", "Year", "Runtime"}

Lookup(table, text) == (CHOOSE e \in table : e[1] = text)[2]
Listed(table, text) == \E e \in table : e[1] = text

HoldsSentinel(d, k) == Has(d, k) /\ d.val[k] = NA
IsMovieType(d) == Has(d, "Type") /\ d.val["Type"] = MOVIE
ParseFails(d, k) == Has(d, k) /\ d.val[k] \in Malformed[k]
WellFormed(d) ==
    /\ IsMovieType(d)
    /\ FieldKeys \subseteq d.keys
    /\ Listed(RatingTable, d.val["imdbRating"])
    /\ Listed(VotesTable, d.val["imdbVotes"])
    /\ Listed(YearTable, d.val["Year"])
    /\ Listed(RuntimeTable, d.val["Runtime"])
IsVector(f) == Len(f) = 6
Returned == pc = "return"

\* C2: extract_features returns None for every record whose Type is not
\* "movie" and for every record in which imdbRating, imdbVotes, Year or
\* Runtime holds "N/A", whatever the other fields hold; a vector is returned
\* only for a movie none of whose four fields is the sentinel.
C2_SentinelOrTypeGivesNone ==
    Returned =>
        /\ (~IsMovieType(movie) \/ \E k \in NumericKeys : HoldsSentinel(movie, k))
              => features = None
        /\ features # None
              => /\ IsMovieType(movie)
                 /\ \A k \in NumericKeys : ~HoldsSentinel(movie, k)

\* A movie whose only defect is the sentinel in Runtime was refused.
C2_Witness ==
    /\ Returned /\ features = None
    /\ IsMovieType(movie) /\ FieldKeys \subseteq movie.keys
    /\ Listed(RatingTable, movie.val["imdbRating"])
    /\ Listed(VotesTable, movie.val["imdbVotes"])
    /\ Listed(YearTable, movie.val["Year"])
    /\ movie.val["Runtime"] = NA
    /\ movie.val["Plot"] # PlotNA

\* C3: extract_features never raises, returns None or a 6-element vector,
\* and returns None whenever a numeric parse fails or the plot text is
\* missing (the Plot key absent, or Plot holding the "N/A" marker the
\* metadata service uses for a missing field).
C3_FailsClosed ==
    Returned =>
        /\ features = None \/ IsVector(features)
        /\ (\E k \in NumericKeys : ParseFails(movie, k)) => features = None
        /\ (~Has(movie, "Plot") \/ movie.val["Plot"] = PlotNA) => features = None

\* C9: for a well-formed movie record the vector is [rating, votes, runtime,
\* sentiment, movie_age, ratio]: votes with the separators removed, the
\* start year of a range, the leading integer of the runtime, age = current
\* year - start year, ratio = rating / log1p(votes).
C9_VectorOfWellFormed ==
    (Returned /\ WellFormed(movie)) =>
        LET rating == Lookup(RatingTable, movie.val["imdbRating"])
            votes == Lookup(VotesTable, movie.val["imdbVotes"])
            year == Lookup(YearTable, movie.val["Year"])
            runtime == Lookup(RuntimeTable, movie.val["Runtime"])
        IN  /\ IsVector(features)
            /\ features[1] = rating
            /\ features[2] = votes
            /\ features[3] = runtime
            /\ features[4] = Polarity(movie.val["Plot"])
            /\ features[5] = ThisYear - year
            /\ features[6].num = rating /\ features[6].logarg = votes
            /\ votes > 0 => features[6].kind = "fin"

\* The record of the specification's example has been extracted.
C9_Witness ==
    /\ Returned /\ IsVector(features)
    /\ movie = MkMovie(Present(MOVIE), Present(<<"7", ".", "5">>),
                       Present(<<"1", "2", ",", "3", "4", "5">>),
                       Present(<<"2", "0", "0", "1", EnDash, "2", "0", "0", "5">>),
                       Present(<<"1", "2", "0", " ", "m", "i", "n">>),
                       Present(<<"A", "happy", "story">>), DisplayKeys)
    /\ features[2] = 12345 /\ features[3] = 120 /\ features[4] > 0
    /\ features[5] = ThisYear - 2001

\* C10: zero votes are not guarded: for a movie with valid rating, year,
\* runtime and plot and imdbVotes "0", extract_features returns a vector
\* whose ratio is not finite.
C10_ZeroVotesPassThrough ==
    (Returned /\ WellFormed(movie) /\ movie.val["imdbVotes"] = <<"0">>) =>
        /\ IsVector(features)
        /\ features[2] = 0
        /\ features[6].kind \in {"pinf", "ninf", "nan"}

\* A zero-vote movie rated 7.5 got an infinite ratio.
C10_Witness ==
    /\ Returned /\ WellFormed(movie) /\ movie.val["imdbVotes"] = <<"0">>
    /\ movie.val["imdbRating"] = <<"7", ".", "5">>
    /\ IsVector(features) /\ features[6].kind = "pinf"

\* ---------------------------------------- the "Analyze Movie" handler
RawVals == (0 - MaxRaw)..MaxRaw
CalVals == (0 - MaxCal)..MaxCal
Fetchable == Records \cup {NoGenre}

NotFoundMsg == "Movie details not found."
InsufficientMsg == "Insufficient data for analysis."
NotTrainedMsg == "Model not trained yet. Train model in Jupyter first."
\* An exception no handler catches ends the run with a traceback.
UncaughtMsg == "KeyError"

Init ==
    /\ pc = "idle"
    /\ movie = NoMovie
    /\ features = None
    /\ min_score = 0 /\ max_score = 0 /\ score = 0
    /\ fraud_score = NoScore /\ gauge = NoGauge
    /\ level = NoLevel /\ shown = NoLevel
    /\ message = "" /\ log = <<>>

\* The except clause of the handler: every exception of the try block
\* ends the request with the same warning.
Except(step) ==
    /\ message' = NotTrainedMsg
    /\ log' = Append(log, step)
    /\ pc' = "done"

\* movie = fetch_movie(selected_title)
Fetch ==
    /\ pc = "idle"
    /\ movie' \in Fetchable \cup {NotFound}
    /\ log' = Append(log, "fetch")
    /\ pc' = "fetched"
    /\ UNCHANGED <<features, min_score, max_score, score, fraud_score, gauge,
                   level, shown, message>>

\* movie["Response"] != "True": st.error("Movie details not found.")
ReportNotFound ==
    /\ pc = "fetched" /\ movie.Response # "True"
    /\ message' = NotFoundMsg
    /\ log' = Append(log, "not_found")
    /\ pc' = "done"
    /\ UNCHANGED <<movie, features, min_score, max_score, score, fraud_score,
                   gauge, level, shown>>

\* The keys the two columns subscript.
ShownKeys == {"Poster", "Title", "Year", "Genre", "imdbRating", "imdbVotes"}

\* The poster and the title, year, genre, rating and votes lines; a key the
\* record lacks raises KeyError outside every try block.
ShowDetails ==
    /\ pc = "fetched" /\ movie.Response = "True"
    /\ IF ShownKeys \subseteq movie.keys
       THEN /\ log' = Append(log, "show")
            /\ pc' = "shown"
            /\ UNCHANGED message
       ELSE /\ log' = Append(log, "show_failed")
            /\ message' = UncaughtMsg
            /\ pc' = "done"
    /\ UNCHANGED <<movie, features, min_score, max_score, score, fraud_score,
                   gauge, level, shown>>

\* Extract that goes on to the model whatever extract_features returned.
ExtractUnchecked ==
    /\ pc = "shown"
    /\ features' = extract_features(movie)
    /\ log' = Append(log, "extract")
    /\ pc' = "extracted"
    /\ UNCHANGED <<movie, min_score, max_score, score, fraud_score, gauge,
                   level, shown, message>>

\* features = extract_features(movie); None: st.warning("Insufficient ...")
Extract ==
    /\ pc = "shown"
    /\ features' = extract_features(movie)
    /\ IF features' # None
       THEN /\ log' = Append(log, "extract")
            /\ pc' = "extracted"
            /\ UNCHANGED message
       ELSE /\ log' = log \o <<"extract", "insufficient">>
            /\ message' = InsufficientMsg
            /\ pc' = "done"
    /\ UNCHANGED <<movie, min_score, max_score, score, fraud_score, gauge,
                   level, shown>>

\* The three joblib.load calls succeed: a model, a scaler and a range.
LoadArtifacts ==
    /\ pc = "extracted"
    /\ \E lo \in CalVals, hi \in CalVals :
          /\ lo <= hi
          /\ min_score' = lo /\ max_score' = hi
    /\ log' = Append(log, "load")
    /\ pc' = "loaded"
    /\ UNCHANGED <<movie, features, score, fraud_score, gauge, level, shown,
                   message>>

\* A joblib.load raises (a file is missing or corrupt).
LoadFails ==
    /\ pc = "extracted"
    /\ Except("load_failed")
    /\ UNCHANGED <<movie, features, min_score, max_score, score, fraud_score,
                   gauge, level, shown>>

\* scaler.transform and model.decision_function return a decision value.
Score ==
    /\ pc = "loaded"
    /\ score' \in RawVals
    /\ log' = Append(log, "score")
    /\ pc' = "scored"
    /\ UNCHANGED <<movie, features, min_score, max_score, fraud_score, gauge,
                   level, shown, message>>

\* scaler.transform or model.decision_function raises (the libraries
\* refuse a non-finite feature, or a vector of the wrong shape).
ScoreFails ==
    /\ pc = "loaded"
    /\ Except("score_failed")
    /\ UNCHANGED <<movie, features, min_score, max_score, score, fraud_score,
                   gauge, level, shown>>

\* The two lines of the normalisation, in numpy float64 arithmetic.
Normalize ==
    /\ pc = "scored"
    /\ fraud_score' = FraudScore(score, min_score, max_score)
    /\ log' = Append(log, "normalize")
    /\ pc' = "normalized"
    /\ UNCHANGED <<movie, features, min_score, max_score, score, gauge, level,
                   shown, message>>

\* The same two lines when the three numbers are Python floats: a zero
\* range raises ZeroDivisionError.
NormalizeZeroDivision ==
    /\ pc = "scored" /\ max_score = min_score
    /\ Except("normalize_failed")
    /\ UNCHANGED <<movie, features, min_score, max_score, score, fraud_score,
                   gauge, level, shown>>

\* st.plotly_chart(fraud_gauge(fraud_score))
ShowGauge ==
    /\ pc = "normalized"
    /\ gauge' = fraud_gauge(fraud_score)
    /\ log' = Append(log, "emit_score")
    /\ pc' = "gauged"
    /\ UNCHANGED <<movie, features, min_score, max_score, score, fraud_score,
                   level, shown, message>>

\* Building or drawing the chart raises.
ShowGaugeFails ==
    /\ pc = "normalized"
    /\ Except("emit_score_failed")
    /\ UNCHANGED <<movie, features, min_score, max_score, score, fraud_score,
                   gauge, level, shown>>

\* level, icon, explanation = explain_risk(fraud_score)
Classify ==
    /\ pc = "gauged"
    /\ level' = explain_risk(fraud_score)
    /\ log' = Append(log, "classify")
    /\ pc' = "classified"
    /\ UNCHANGED <<movie, features, min_score, max_score, score, fraud_score,
                   gauge, shown, message>>

\* st.markdown(icon, level); st.write(explanation)
ShowLevel ==
    /\ pc = "classified"
    /\ shown' = level
    /\ log' = Append(log, "emit_tier")
    /\ pc' = "done"
    /\ UNCHANGED <<movie, features, min_score, max_score, score, fraud_score,
                   gauge, level, message>>

\* Writing the level raises.
ShowLevelFails ==
    /\ pc = "classified"
    /\ Except("emit_tier_failed")
    /\ UNCHANGED <<movie, features, min_score, max_score, score, fraud_score,
                   gauge, level, shown>>

\* The next click reruns the script from the top.
NewRequest ==
    /\ pc = "done"
    /\ pc' = "idle"
    /\ movie' = NoMovie
    /\ features' = None
    /\ min_score' = 0 /\ max_score' = 0 /\ score' = 0
    /\ fraud_score' = NoScore /\ gauge' = NoGauge
    /\ level' = NoLevel /\ shown' = NoLevel
    /\ message' = "" /\ log' = <<>>

Next ==
    \/ Fetch \/ ReportNotFound \/ ShowDetails \/ Extract
    \/ LoadArtifacts \/ LoadFails \/ Score \/ ScoreFails
    \/ Normalize \/ NormalizeZeroDivision
    \/ ShowGauge \/ ShowGaugeFails \/ Classify
    \/ ShowLevel \/ ShowLevelFails \/ NewRequest

Spec == Init /\ [][Next]_vars

\* ------------------------------------------ explain_risk called directly
ScoreInputs == (0 - ScoreOver)..(AxisMax + ScoreOver)

InitClassify ==
    /\ pc = "call"
    /\ fraud_score \in {Finite(v) : v \in ScoreInputs}
    /\ level = NoLevel
    /\ movie = NoMovie /\ features = None
    /\ min_score = 0 /\ max_score = 0 /\ score = 0
    /\ gauge = NoGauge /\ shown = NoLevel
    /\ message = "" /\ log = <<>>

ClassifyCall ==
    /\ pc = "call"
    /\ level' = explain_risk(fraud_score)
    /\ pc' = "return"
    /\ UNCHANGED <<movie, features, min_score, max_score, score, fraud_score,
                   gauge, shown, message, log>>

NextClassify == ClassifyCall

SpecClassify == InitClassify /\ [][NextClassify]_vars

\* ------------------------------------------------ claims about explain_risk
\* C1: explain_risk returns exactly one tier for every score: High iff
\* s > 60, Moderate iff 30 < s <= 60, Low iff s <= 30, so that 60.00 is
\* Moderate and 30.00 is Low, also for scores below 0 and above 100.
C1_StrictThresholds ==
    (Returned /\ fraud_score.fin) =>
        LET s == fraud_score.v
        IN  /\ level.level \in {"High Risk", "Moderate Risk", "Low Risk"}
            /\ level.level = "High Risk" <=> s > 6000
            /\ level.level = "Moderate Risk" <=> (3000 < s /\ s <= 6000)
            /\ level.level = "Low Risk" <=> s <= 3000
            /\ level.icon = (IF s > 6000 THEN "red"
                             ELSE IF s > 3000 THEN "yellow" ELSE "green")

\* explain_risk(60.00) returned Moderate.
C1_Witness ==
    /\ Returned /\ fraud_score = Finite(6000)
    /\ level.level = "Moderate Risk"

\* ---------------------------------------------- claims about the handler
Range(f) == {f[i] : i \in DOMAIN f}
Pipeline == <<"fetch", "show", "extract", "load", "score", "normalize",
              "emit_score", "classify", "emit_tier">>
Ran(step) == step \in Range(log)
IsPrefix(a, b) == Len(a) <= Len(b) /\ a = SubSeq(b, 1, Len(a))

\* The part of C4 that does not depend on where the score is emitted: the
\* steps run in the order of the code and each only after the ones before
\* it succeeded; "movie not found" ends the request before extract,
\* "insufficient data" before the artifacts are loaded.
C4_Forward ==
    /\ \A i \in 1..Len(log) :
          \/ i <= Len(Pipeline) /\ log[i] = Pipeline[i]
          \/ i = Len(log) /\ log[i] \notin Range(Pipeline) /\ pc = "done"
    /\ Ran("extract") => movie.Response = "True"
    /\ Ran("load") => features # None
    /\ message = NotFoundMsg => log = <<"fetch", "not_found">> /\ features = None
    /\ (Ran("extract") /\ features = None)
          => /\ message = InsufficientMsg /\ pc = "done"
             /\ log = <<"fetch", "show", "extract", "insufficient">>
             /\ fraud_score = NoScore /\ level = NoLevel
    /\ shown # NoLevel
          => /\ log = Pipeline
             /\ shown = explain_risk(fraud_score)
             /\ gauge = fraud_gauge(fraud_score)

\* C4 (the order of the code): the steps run in the order fetch -> extract -> load
\* artifacts -> normalize -> emit the score gauge -> classify -> emit the
\* tier; the score is emitted only after fetch, extract, load and normalize
\* succeeded, the tier only after classify as well.
C4_OrderScoreBeforeClassify ==
    /\ C4_Forward
    /\ gauge # NoGauge
          => /\ IsPrefix(SubSeq(Pipeline, 1, 7), log)
             /\ gauge.value = fraud_score /\ features # None
    /\ Ran("classify") => gauge # NoGauge

\* A request ran to the end and showed a tier.
C4_Witness ==
    /\ pc = "done" /\ log = Pipeline
    /\ shown.level = "High Risk" /\ gauge.value = Finite(7500)

\* C4 (the order fetch -> ... -> classify -> emit): as above, but the score
\* is emitted only after classify.
C4_EmitOnlyAfterClassify ==
    /\ C4_Forward
    /\ gauge # NoGauge => Ran("classify")

\* C5: with min_score = max_score the normalisation fails with an error of
\* its own: no score is computed or displayed, and the request is not
\* reported as "model not trained yet".
C5_DegenerateIsDistinct ==
    (min_score = max_score /\ (Ran("normalize") \/ Ran("normalize_failed")))
        => /\ fraud_score = NoScore
           /\ gauge = NoGauge /\ shown = NoLevel
           /\ message # NotTrainedMsg

\* C6: "model not trained yet" is reported if and only if loading the
\* artifacts failed.
C6_NotTrainedIffLoadFailed ==
    pc = "done" => (message = NotTrainedMsg <=> Ran("load_failed"))

\* C7: for min_score < max_score the fraud score does not increase with the
\* raw decision value: the score computed for the request is at least that
\* of every higher raw value and at most that of every lower one.
C7_NormalizeMonotone ==
    (Ran("normalize") /\ min_score < max_score) =>
        /\ fraud_score.fin
        /\ \A r \in RawVals :
              LET other == FraudScore(r, min_score, max_score)
              IN  /\ other.fin
                  /\ r <= score => other.v >= fraud_score.v
                  /\ r >= score => other.v <= fraud_score.v

\* The example of the specification: raw -2 in the range (-3, 1) gives 75.00.
C7_Witness ==
    /\ Ran("normalize") /\ min_score = -3 /\ max_score = 1 /\ score = -2
    /\ fraud_score = Finite(7500)

\* C8: every fraud score passed to the gauge and to explain_risk lies in
\* [0, 100] when min_score < max_score.
C8_ScoreInRange ==
    (gauge # NoGauge /\ min_score < max_score) =>
        /\ gauge.value.fin
        /\ 0 <= gauge.value.v /\ gauge.value.v <= 10000

====
